---- MODULE Spec2Model ----
(***************************************************************************)
(* A model of ursina_block_world_fixed.py: the Block entities of the       *)
(* scene, the palette selection, the file world.txt and the messages the   *)
(* handlers print.  inp records the input of the last event: the key, what *)
(* the mouse hovered and its normal, and what the file system did.         *)
(*                                                                         *)
(* Text is a sequence of symbols.  The symbols "0".."9", "-", "+", ","     *)
(* and " " are single characters; any other symbol (such as "stone")       *)
(* stands for a run of letters, which holds no comma, no white space and   *)
(* no digit.  A file is a sequence of lines, each without its newline.     *)
(* The textures dictionary is built once at start-up from the asset files  *)
(* found and never changes: it is a function of the set of assets found,   *)
(* and a Block's texture is get_texture of its type.  Colours and the      *)
(* preview quad are not modelled.                                          *)
(***************************************************************************)
EXTENDS Integers, Sequences, FiniteSets, TLC

VARIABLES entities, current_block, file, printed, inp, events

vars == <<entities, current_block, file, printed, inp, events>>

(***************************************************************************)
(* Bounds of the model.                                                    *)
(***************************************************************************)
\* the platform is WorldSize x WorldSize blocks wide (the program: 20)
WorldSize == 1
\* the number of input events of one run
MaxEvents == 2
\* how far below 0 and beyond the palette the indices tried by C15 go
IndexSlack == 2

\* the platform has two layers, y = 0 and y = -1
Layers == 2

(***************************************************************************)
(* Palette                                                                 *)
(***************************************************************************)
block_types ==
    << <<"grass">>, <<"stone">>, <<"brick">>, <<"wood">>, <<"tnt">>,
       <<"DiamondBlock">>, <<"PumpkinHead">>, <<"IronBlock">>,
       <<"CraftingTable">>, <<"furnace">> >>

\* the keys of the textures dictionary
textures == { block_types[i] : i \in 1..Len(block_types) }

\* a texture loaded from the asset of a palette entry, the built-in
\* 'white_cube', and None
Tex(k) == <<"texture", k>>

WhiteCube == <<"white_cube", <<>>>>

NoTexture == <<"None", <<>>>>

\* the assets found at start-up, as sets of palette entries
AssetCases ==
    { textures, {}, textures \ {<<"wood">>}, {<<"wood">>},
      {<<"grass">>, <<"stone">>, <<"furnace">>} }

\* load_texture(path): None when the asset is not found
LoadTexture(avail, k) == IF k \in avail THEN Tex(k) ELSE NoTexture

\* safe_load_texture: 'white_cube' when load_texture returns None or raises
SafeLoadTexture(avail, k) ==
    IF LoadTexture(avail, k) = NoTexture THEN WhiteCube ELSE LoadTexture(avail, k)

\* the textures dictionary
TexturesDict(avail) == [k \in textures |-> SafeLoadTexture(avail, k)]

\* textures.get(key)
DictGet(avail, key) == IF key \in textures THEN TexturesDict(avail)[key] ELSE NoTexture

\* a mutant of GetTexture: no fallback for a key the dictionary lacks
GetTexture_NoFallback(avail, block_type) == DictGet(avail, block_type)

\* get_texture(block_type)
GetTexture(avail, block_type) ==
    IF DictGet(avail, block_type) = NoTexture
    THEN IF DictGet(avail, <<"wood">>) # NoTexture
         THEN DictGet(avail, <<"wood">>)
         ELSE WhiteCube
    ELSE DictGet(avail, block_type)

\* Block(position, block_type): the entity appended to scene.entities
Block(position, block_type) == [position |-> position, block_type |-> block_type]

\* the platform built at start-up, in the order the loops create it
GeneratedWorld ==
    LET n == WorldSize * Layers * WorldSize
        cell(k) == LET z == (k - 1) \div (Layers * WorldSize)
                       y == ((k - 1) \div WorldSize) % Layers
                       x == (k - 1) % WorldSize
                   IN  Block(<<x, 0 - y, z>>, <<"grass">>)
    IN  [k \in 1..n |-> cell(k)]

(***************************************************************************)
(* Text: str(int), int(str), strip, split                                  *)
(***************************************************************************)
Digits == <<"0", "1", "2", "3", "4", "5", "6", "7", "8", "9">>

DigitSet == { Digits[i] : i \in 1..Len(Digits) }

DigitValue(c) == (CHOOSE i \in 1..Len(Digits) : Digits[i] = c) - 1

RECURSIVE NatToStr(_)
NatToStr(n) ==
    IF n < 10 THEN <<Digits[n + 1]>>
    ELSE NatToStr(n \div 10) \o <<Digits[(n % 10) + 1]>>

\* a mutant of IntToStr: the sign is lost
IntToStr_NoSign(n) == NatToStr(IF n < 0 THEN 0 - n ELSE n)

\* the text of an integer in an f-string
IntToStr(n) == IF n < 0 THEN <<"-">> \o NatToStr(0 - n) ELSE NatToStr(n)

IsSpace(c) == c = " "

RECURSIVE LStrip(_)
LStrip(s) == IF s # <<>> /\ IsSpace(Head(s)) THEN LStrip(Tail(s)) ELSE s

RECURSIVE RStrip(_)
RStrip(s) ==
    IF s # <<>> /\ IsSpace(s[Len(s)]) THEN RStrip(SubSeq(s, 1, Len(s) - 1)) ELSE s

\* str.strip()
Strip(s) == RStrip(LStrip(s))

\* str.split(","): the fields between the commas, at least one
RECURSIVE Split(_)
Split(s) ==
    IF \A i \in 1..Len(s) : s[i] # ","
    THEN <<s>>
    ELSE LET i == CHOOSE j \in 1..Len(s) :
                     s[j] = "," /\ \A k \in 1..(j - 1) : s[k] # ","
         IN  <<SubSeq(s, 1, i - 1)>> \o Split(SubSeq(s, i + 1, Len(s)))

RECURSIVE DigitsToNat(_)
DigitsToNat(s) ==
    IF s = <<>> THEN 0
    ELSE 10 * DigitsToNat(SubSeq(s, 1, Len(s) - 1)) + DigitValue(s[Len(s)])

\* the digits of a field once white space and a sign are taken off
Unsigned(s) ==
    LET t == Strip(s)
    IN  IF t # <<>> /\ Head(t) \in {"-", "+"} THEN Tail(t) ELSE t

\* int(s) does not raise ValueError
IsInt(s) ==
    /\ Unsigned(s) # <<>>
    /\ \A i \in 1..Len(Unsigned(s)) : Unsigned(s)[i] \in DigitSet

\* int(s)
StrToInt(s) ==
    LET t == Strip(s)
    IN  IF Head(t) = "-" THEN 0 - DigitsToNat(Unsigned(s)) ELSE DigitsToNat(Unsigned(s))

(***************************************************************************)
(* Messages: <<message, text the message quotes>>                          *)
(***************************************************************************)
Msg(m, arg) == <<m, arg>>

MsgSaved == Msg("World saved successfully to world.txt!", <<>>)
MsgCritical == Msg("CRITICAL ERROR SAVING WORLD", <<>>)
MsgLoaded == Msg("World loaded successfully from world.txt!", <<>>)
MsgNotFound == Msg("Error: world.txt not found. Please save a world first (F5).", <<>>)
MsgGeneral == Msg("General error loading world", <<>>)
MsgSkipLine(line) == Msg("Skipping malformed line in world.txt", line)
MsgSkipBlock(line) == Msg("Warning: could not save Block. Skipping.", line)
MsgTexture(t) == Msg("Warning: Texture key missing; defaulting to 'wood'.", t)

\* what get_texture prints when a Block of this type is built
TextureWarning(block_type) ==
    IF block_type \in textures THEN <<>> ELSE <<MsgTexture(block_type)>>

(***************************************************************************)
(* save_world                                                              *)
(***************************************************************************)
\* the line written for one Block, without its newline
SaveLine(e) ==
    IntToStr(e.position[1]) \o <<",">> \o IntToStr(e.position[2]) \o <<",">>
        \o IntToStr(e.position[3]) \o <<",">> \o e.block_type

\* a mutant of SaveLines: the newest Block is written first
RECURSIVE SaveLines_Reversed(_, _)
SaveLines_Reversed(es, skip) ==
    IF es = <<>> THEN <<>>
    ELSE (IF Len(es) = skip THEN <<>> ELSE <<SaveLine(es[Len(es)])>>)
             \o SaveLines_Reversed(SubSeq(es, 1, Len(es) - 1), skip)

\* the lines of the Blocks of the scene, in the scene's order, the
\* Block whose write raises (skip, 0 for none) left out
RECURSIVE SaveLines(_, _)
SaveLines(es, skip) ==
    IF es = <<>> THEN <<>>
    ELSE SaveLines(SubSeq(es, 1, Len(es) - 1), skip)
             \o (IF Len(es) = skip THEN <<>> ELSE <<SaveLine(es[Len(es)])>>)

\* what the file system does to one save: nothing, open() raises, the
\* write of Block k raises, or the flush at close raises with j lines on disk
SaveFaults(n) ==
    {<<"ok", 0>>, <<"open", 0>>}
        \cup { <<"write", k>> : k \in 1..n }
        \cup { <<"close", j>> : j \in 0..n }

FilePresent(lines) == [exists |-> TRUE, lines |-> lines]

FileAbsent == [exists |-> FALSE, lines |-> <<>>]

\* a mutant of SavedFile: the file is opened to append, not to write
SavedFile_Appends(es, old, io) ==
    CASE io[1] = "ok" -> FilePresent(old.lines \o SaveLines(es, 0))
      [] io[1] = "open" -> old
      [] io[1] = "write" -> FilePresent(old.lines \o SaveLines(es, io[2]))
      [] io[1] = "close" -> FilePresent(SubSeq(SaveLines(es, 0), 1, io[2]))

\* world.txt after save_world
SavedFile(es, old, io) ==
    CASE io[1] = "ok" -> FilePresent(SaveLines(es, 0))
      [] io[1] = "open" -> old
      [] io[1] = "write" -> FilePresent(SaveLines(es, io[2]))
      [] io[1] = "close" -> FilePresent(SubSeq(SaveLines(es, 0), 1, io[2]))

\* what save_world prints
SavedMessages(es, io) ==
    CASE io[1] = "ok" -> <<MsgSaved>>
      [] io[1] = "open" -> <<MsgCritical>>
      [] io[1] = "write" -> <<MsgSkipBlock(SaveLine(es[io[2]])), MsgSaved>>
      [] io[1] = "close" -> <<MsgCritical>>

(***************************************************************************)
(* load_world                                                              *)
(***************************************************************************)
\* the line is skipped by "if not line: continue"
IsBlank(line) == Strip(line) = <<>>

Fields(line) == Split(Strip(line))

\* neither the unpacking into x, y, z, t nor an int() raises ValueError
WellFormed(line) ==
    /\ Len(Fields(line)) = 4
    /\ \A i \in 1..3 : IsInt(Fields(line)[i])

LineBlock(line) ==
    Block(<<StrToInt(Fields(line)[1]), StrToInt(Fields(line)[2]),
            StrToInt(Fields(line)[3])>>, Fields(line)[4])

\* a mutant of LoadedBlocks: the first malformed line ends the load
RECURSIVE LoadedBlocks_StopAtMalformed(_)
LoadedBlocks_StopAtMalformed(lines) ==
    IF lines = <<>> THEN <<>>
    ELSE IF IsBlank(Head(lines)) THEN LoadedBlocks_StopAtMalformed(Tail(lines))
    ELSE IF WellFormed(Head(lines))
         THEN <<LineBlock(Head(lines))>> \o LoadedBlocks_StopAtMalformed(Tail(lines))
         ELSE <<>>

\* the Blocks built from the lines, in the order of the lines
RECURSIVE LoadedBlocks(_)
LoadedBlocks(lines) ==
    IF lines = <<>> THEN <<>>
    ELSE LET line == lines[Len(lines)]
             rest == LoadedBlocks(SubSeq(lines, 1, Len(lines) - 1))
         IN  IF ~IsBlank(line) /\ WellFormed(line)
             THEN Append(rest, LineBlock(line))
             ELSE rest

\* what the loop over the lines prints
RECURSIVE LineMessages(_)
LineMessages(lines) ==
    IF lines = <<>> THEN <<>>
    ELSE LET line == lines[Len(lines)]
             rest == LineMessages(SubSeq(lines, 1, Len(lines) - 1))
         IN  IF IsBlank(line) THEN rest
             ELSE IF WellFormed(line)
                  THEN rest \o TextureWarning(LineBlock(line).block_type)
                  ELSE Append(rest, MsgSkipLine(Strip(line)))

\* what the file system does to one load: nothing, or open() raises an
\* error other than FileNotFoundError
LoadFaults(f) == IF f.exists THEN {"ok", "error"} ELSE {"ok"}

\* destroy(e): the entity leaves scene.entities
Destroy(es, i) == SubSeq(es, 1, i - 1) \o SubSeq(es, i + 1, Len(es))

\* every Block of the scene is destroyed
RECURSIVE DestroyAll(_)
DestroyAll(es) == IF es = <<>> THEN es ELSE DestroyAll(Destroy(es, 1))

\* a mutant of LoadedWorld: the Blocks of the scene are not destroyed first
LoadedWorld_Merge(es, f, io) ==
    es \o (IF f.exists /\ io = "ok" THEN LoadedBlocks(f.lines) ELSE <<>>)

\* the Blocks of the scene after load_world
LoadedWorld(es, f, io) ==
    DestroyAll(es) \o (IF f.exists /\ io = "ok" THEN LoadedBlocks(f.lines) ELSE <<>>)

\* a mutant of LoadedMessages: a missing file is reported as a general error
LoadedMessages_NoNotFound(f, io) ==
    IF ~f.exists \/ io = "error" THEN <<MsgGeneral>>
    ELSE Append(LineMessages(f.lines), MsgLoaded)

\* what load_world prints
LoadedMessages(f, io) ==
    IF ~f.exists THEN <<MsgNotFound>>
    ELSE IF io = "error" THEN <<MsgGeneral>>
    ELSE Append(LineMessages(f.lines), MsgLoaded)

(***************************************************************************)
(* What the program finds at start-up and what the mouse reports           *)
(***************************************************************************)
\* world.txt as the program may find it: absent, empty, or some text
InitFiles ==
    { FileAbsent,
      FilePresent(<<>>),
      \* 0,0,0,stone / 1,x,0,wood / 0,1,0,brick
      FilePresent(<< <<"0", ",", "0", ",", "0", ",", "stone">>,
                     <<"1", ",", "x", ",", "0", ",", "wood">>,
                     <<"0", ",", "1", ",", "0", ",", "brick">> >>),
      \* " -1,+2, 07,lava " / "  " / 1,2,3 / 1.5,0,0,wood
      FilePresent(<< <<" ", "-", "1", ",", "+", "2", ",", " ", "0", "7", ",", "lava", " ">>,
                     <<" ", " ">>,
                     <<"1", ",", "2", ",", "3">>,
                     <<"1", ".", "5", ",", "0", ",", "0", ",", "wood">> >>),
      \* 1,2,3,wood,tnt / 12,0,-10, / 0,0,0,grass / 0,0,0,stone
      FilePresent(<< <<"1", ",", "2", ",", "3", ",", "wood", ",", "tnt">>,
                     <<"1", "2", ",", "0", ",", "-", "1", "0", ",">>,
                     <<"0", ",", "0", ",", "0", ",", "grass">>,
                     <<"0", ",", "0", ",", "0", ",", "stone">> >>),
      \* 0,0,0,stone / "+1, 2,03,wood"
      FilePresent(<< <<"0", ",", "0", ",", "0", ",", "stone">>,
                     <<"+", "1", ",", " ", "2", ",", "0", "3", ",", "wood">> >>) }

\* mouse.normal: the outward normal of the face of the cube under the mouse
Normals ==
    { <<1, 0, 0>>, <<-1, 0, 0>>, <<0, 1, 0>>, <<0, -1, 0>>, <<0, 0, 1>>, <<0, 0, -1>> }

\* mouse.hovered_entity: nothing (0), an entity that is no Block (-1), or
\* the i-th Block of the scene
Hovered(es) == {0, -1} \cup (1..Len(es))

IsBlockHit(hit) == hit >= 1

VecAdd(a, b) == <<a[1] + b[1], a[2] + b[2], a[3] + b[3]>>

DigitKeys == {"1", "2", "3", "4", "5", "6", "7", "8", "9", "0"}

\* a mutant of KeyIndex: the digit itself is the index
KeyIndex_NoShift(key) == StrToInt(<<key>>)

\* index = 9 if key == '0' else int(key) - 1
KeyIndex(key) == IF key = "0" THEN 9 ELSE StrToInt(<<key>>) - 1

\* a mutant of SelectByIndex: an index out of range is clamped into it
SelectByIndex_Clamps(cur, index) ==
    IF index < 0 THEN 0
    ELSE IF index >= Len(block_types) THEN Len(block_types) - 1
    ELSE index

\* the selection after a digit key
SelectByIndex(cur, index) ==
    IF 0 <= index /\ index < Len(block_types) THEN index ELSE cur

\* a mutant of Step: the index stops at the ends of the palette
Step_Saturating(cur, delta) ==
    IF cur + delta < 0 THEN 0
    ELSE IF cur + delta >= Len(block_types) THEN Len(block_types) - 1
    ELSE cur + delta

\* a mutant of Step: the remainder takes the sign of the dividend
Step_Remainder(cur, delta) ==
    IF cur + delta < 0 THEN cur + delta ELSE (cur + delta) % Len(block_types)

\* the selection after a scroll: (current_block + delta) % len(block_types)
Step(cur, delta) == (cur + delta) % Len(block_types)

\* a mutant of Placed: the new Block takes the place of the Block hit
Placed_AtHit(es, hit, normal, cur) ==
    IF IsBlockHit(hit)
    THEN Append(es, Block(es[hit].position, block_types[cur + 1]))
    ELSE es

\* the Blocks of the scene after 'left mouse down'
Placed(es, hit, normal, cur) ==
    IF IsBlockHit(hit)
    THEN Append(es, Block(VecAdd(es[hit].position, normal), block_types[cur + 1]))
    ELSE es

\* a mutant of Removed: with no Block under the mouse the newest Block goes
Removed_Unchecked(es, hit) ==
    IF IsBlockHit(hit) THEN Destroy(es, hit) ELSE Destroy(es, Len(es))

\* the Blocks of the scene after 'right mouse down'
Removed(es, hit) == IF IsBlockHit(hit) THEN Destroy(es, hit) ELSE es

(***************************************************************************)
(* The program                                                             *)
(***************************************************************************)
NoVec == <<0, 0, 0>>

\* the input of one event
Input(key, hovered, normal, io) ==
    [key |-> key, hovered |-> hovered, normal |-> normal, io |-> io]

Init ==
    /\ entities = GeneratedWorld
    /\ current_block = 0
    /\ file \in InitFiles
    /\ printed = <<>>
    /\ inp = Input("", 0, NoVec, <<"ok", 0>>)
    /\ events = 0

\* one more input event is handled
Event == events < MaxEvents /\ events' = events + 1

KeyDigit ==
    \E key \in DigitKeys :
        /\ Event
        /\ inp' = Input(key, 0, NoVec, <<"ok", 0>>)
        /\ current_block' = SelectByIndex(current_block, KeyIndex(key))
        /\ printed' = <<>>
        /\ UNCHANGED <<entities, file>>

ScrollUp ==
    /\ Event
    /\ inp' = Input("scroll up", 0, NoVec, <<"ok", 0>>)
    /\ current_block' = Step(current_block, 1)
    /\ printed' = <<>>
    /\ UNCHANGED <<entities, file>>

ScrollDown ==
    /\ Event
    /\ inp' = Input("scroll down", 0, NoVec, <<"ok", 0>>)
    /\ current_block' = Step(current_block, -1)
    /\ printed' = <<>>
    /\ UNCHANGED <<entities, file>>

LeftMouseDown ==
    \E hit \in Hovered(entities), normal \in Normals :
        /\ Event
        /\ inp' = Input("left mouse down", hit, normal, <<"ok", 0>>)
        /\ entities' = Placed(entities, hit, normal, current_block)
        /\ printed' = <<>>
        /\ UNCHANGED <<current_block, file>>

RightMouseDown ==
    \E hit \in Hovered(entities) :
        /\ Event
        /\ inp' = Input("right mouse down", hit, NoVec, <<"ok", 0>>)
        /\ entities' = Removed(entities, hit)
        /\ printed' = <<>>
        /\ UNCHANGED <<current_block, file>>

\* a mutant of SaveWorld: a save that fails at close empties the scene
SaveWorld_ClearsOnFault ==
    \E io \in SaveFaults(Len(entities)) :
        /\ Event
        /\ inp' = Input("f5", 0, NoVec, io)
        /\ file' = SavedFile(entities, file, io)
        /\ printed' = SavedMessages(entities, io)
        /\ entities' = IF io[1] = "close" THEN <<>> ELSE entities
        /\ UNCHANGED current_block

\* key f5, or a click on the save button
SaveWorld ==
    \E io \in SaveFaults(Len(entities)) :
        /\ Event
        /\ inp' = Input("f5", 0, NoVec, io)
        /\ file' = SavedFile(entities, file, io)
        /\ printed' = SavedMessages(entities, io)
        /\ UNCHANGED <<entities, current_block>>

\* a mutant of LoadWorld: the file is opened for writing and so emptied
LoadWorld_TruncatesFile ==
    \E io \in LoadFaults(file) :
        /\ Event
        /\ inp' = Input("f6", 0, NoVec, <<io, 0>>)
        /\ entities' = LoadedWorld(entities, file, io)
        /\ printed' = LoadedMessages(file, io)
        /\ file' = FilePresent(<<>>)
        /\ UNCHANGED current_block

\* a mutant of LoadWorld: the selection goes back to the first entry
LoadWorld_ResetsSelection ==
    \E io \in LoadFaults(file) :
        /\ Event
        /\ inp' = Input("f6", 0, NoVec, <<io, 0>>)
        /\ entities' = LoadedWorld(entities, file, io)
        /\ printed' = LoadedMessages(file, io)
        /\ current_block' = 0
        /\ UNCHANGED file

\* key f6, or a click on the load button
LoadWorld ==
    \E io \in LoadFaults(file) :
        /\ Event
        /\ inp' = Input("f6", 0, NoVec, <<io, 0>>)
        /\ entities' = LoadedWorld(entities, file, io)
        /\ printed' = LoadedMessages(file, io)
        /\ UNCHANGED <<current_block, file>>

\* any other key
OtherKey ==
    /\ Event
    /\ inp' = Input("other", 0, NoVec, <<"ok", 0>>)
    /\ printed' = <<>>
    /\ UNCHANGED <<entities, current_block, file>>

Next ==
    \/ KeyDigit
    \/ ScrollUp
    \/ ScrollDown
    \/ LeftMouseDown
    \/ RightMouseDown
    \/ SaveWorld
    \/ LoadWorld
    \/ OtherKey

Spec == Init /\ [][Next]_vars

(***************************************************************************)
(* Vocabulary of the properties                                            *)
(***************************************************************************)
Last(s) == s[Len(s)]

\* the (Coordinate, BlockType) pairs of a scene
BlockSet(es) == { <<es[i].position, es[i].block_type>> : i \in DOMAIN es }

\* the Blocks of a scene at one coordinate, in the scene's order
AtCoord(es, p) == LET At(e) == e.position = p IN SelectSeq(es, At)

Positions(es) == { es[i].position : i \in DOMAIN es }

\* the last event was a load that read the file to its end
LoadedOk == inp.key = "f6" /\ inp.io[1] = "ok" /\ file.exists

\* the lines of the file that describe a Block
Describes(line) == ~IsBlank(line) /\ WellFormed(line)

DescribedLines(f) == SelectSeq(f.lines, Describes)

Rejected(line) == ~IsBlank(line) /\ ~WellFormed(line)

IsSkipMsg(m) == m[1] = MsgSkipLine(<<>>)[1]

(***************************************************************************)
(* C1: the world never holds two Blocks at the same coordinate.            *)
(* The program does not keep this: 'left mouse down' appends a Block at    *)
(* hit.position + mouse.normal whether or not a Block is there already.    *)
(***************************************************************************)
C1_OneBlockPerCoordinate ==
    \A i, j \in DOMAIN entities :
        entities[i].position = entities[j].position => i = j

(***************************************************************************)
(* C2: a save without I/O error followed at once by a load without I/O     *)
(* error leaves the world with exactly the (Coordinate, BlockType) pairs   *)
(* it had when it was saved.                                               *)
(***************************************************************************)
C2_SaveLoadRoundTrip ==
    [][(/\ inp.key = "f5" /\ inp.io[1] = "ok"
        /\ inp'.key = "f6" /\ inp'.io[1] = "ok")
       => BlockSet(entities') = BlockSet(entities)]_vars

\* the initial platform (it has Blocks at y = -1) was saved, then loaded
C2_Witness ==
    /\ inp.key = "f6" /\ inp.io[1] = "ok" /\ events = 2
    /\ file = FilePresent(SaveLines(GeneratedWorld, 0))
    /\ BlockSet(entities) = BlockSet(GeneratedWorld)
    /\ \E i \in DOMAIN entities : entities[i].position[2] < 0

(***************************************************************************)
(* C3: after a load, every Block of the world is one that a line of the    *)
(* file describes, and when the load read the file to its end the world    *)
(* holds exactly the Blocks of the file's well-formed lines, one for each  *)
(* line, in the order of the lines.                                        *)
(***************************************************************************)
C3_LoadReplaces ==
    inp.key = "f6" =>
        /\ \A i \in DOMAIN entities :
               /\ file.exists
               /\ \E j \in DOMAIN file.lines :
                      Describes(file.lines[j]) /\ entities[i] = LineBlock(file.lines[j])
        /\ LoadedOk =>
               entities = [i \in 1..Len(DescribedLines(file)) |->
                               LineBlock(DescribedLines(file)[i])]

\* the two grass Blocks of the platform were replaced by the Blocks of a file
C3_Witness ==
    /\ LoadedOk /\ events = 1
    /\ entities # <<>>
    /\ BlockSet(entities) \cap BlockSet(GeneratedWorld) = {}

(***************************************************************************)
(* C4 as stated: every line that is not well-formed is skipped with a      *)
(* diagnostic, every well-formed line is loaded, and the load runs to its  *)
(* end.  A blank line is skipped without a diagnostic, so this fails.      *)
(***************************************************************************)
C4_EveryBadLineDiagnosed ==
    LoadedOk =>
        /\ Last(printed) = MsgLoaded
        /\ \A j \in DOMAIN file.lines :
               IF WellFormed(file.lines[j])
               THEN \E i \in DOMAIN entities : entities[i] = LineBlock(file.lines[j])
               ELSE \E k \in DOMAIN printed :
                        printed[k] = MsgSkipLine(Strip(file.lines[j]))

(***************************************************************************)
(* C4 as amended: every non-blank line that is not well-formed is skipped  *)
(* with one diagnostic, every well-formed line before and after it is      *)
(* loaded, and the load runs to its end; a blank line is skipped silently. *)
(***************************************************************************)
C4_MalformedLinesSkipped ==
    LoadedOk =>
        /\ Last(printed) = MsgLoaded
        /\ \A j \in DOMAIN file.lines :
               /\ Describes(file.lines[j]) =>
                      \E i \in DOMAIN entities : entities[i] = LineBlock(file.lines[j])
               /\ Rejected(file.lines[j]) =>
                      \E k \in DOMAIN printed :
                          printed[k] = MsgSkipLine(Strip(file.lines[j]))
        /\ Len(entities) = Len(DescribedLines(file))
        /\ Len(SelectSeq(printed, IsSkipMsg)) = Len(SelectSeq(file.lines, Rejected))

\* a file with a malformed line between two well-formed lines was loaded
C4_Witness ==
    /\ LoadedOk
    /\ \E i, j, k \in DOMAIN file.lines :
           /\ i < j /\ j < k
           /\ Describes(file.lines[i])
           /\ Rejected(file.lines[j])
           /\ Describes(file.lines[k])
    /\ Len(entities) = 2
    /\ Len(printed) = 2

(***************************************************************************)
(* C5: a load with no world.txt prints the "not found" message and nothing *)
(* else, leaves the world empty, and the program takes the next event.     *)
(***************************************************************************)
C5_LoadWithoutFile ==
    (inp.key = "f6" /\ ~file.exists) =>
        /\ printed = <<MsgNotFound>>
        /\ MsgNotFound # MsgGeneral /\ MsgNotFound # MsgLoaded
        /\ entities = <<>>
        /\ events < MaxEvents => ENABLED Next

\* the platform was there and no file: the load emptied the world
C5_Witness ==
    /\ inp.key = "f6" /\ ~file.exists /\ events = 1
    /\ printed = <<MsgNotFound>>
    /\ entities = <<>>

(***************************************************************************)
(* C6: a place onto a coordinate that holds a Block leaves exactly one     *)
(* Block there, of the selected type.  The program appends the new Block   *)
(* and keeps the old one.                                                  *)
(***************************************************************************)
C6_PlaceOverwrites ==
    [][(/\ inp'.key = "left mouse down"
        /\ IsBlockHit(inp'.hovered)
        /\ VecAdd(entities[inp'.hovered].position, inp'.normal) \in Positions(entities))
       => AtCoord(entities', VecAdd(entities[inp'.hovered].position, inp'.normal))
              = <<Block(VecAdd(entities[inp'.hovered].position, inp'.normal),
                        block_types[current_block + 1])>>]_vars

(***************************************************************************)
(* C7: a place with the mouse on the Block at c, normal n and selection s  *)
(* adds one Block of type palette[s] at c + n, and the Blocks at every     *)
(* other coordinate are as they were.                                      *)
(***************************************************************************)
C7_PlaceAddsAdjacent ==
    [][(inp'.key = "left mouse down" /\ IsBlockHit(inp'.hovered))
       => LET c == entities[inp'.hovered].position
              n == inp'.normal
              d == <<c[1] + n[1], c[2] + n[2], c[3] + n[3]>>
              new == [position |-> d, block_type |-> block_types[current_block + 1]]
          IN  /\ Len(entities') = Len(entities) + 1
              /\ AtCoord(entities', d) = Append(AtCoord(entities, d), new)
              /\ \A p \in Positions(entities) \cup Positions(entities') :
                     p # d => AtCoord(entities', p) = AtCoord(entities, p)]_vars

\* a Block of a type other than grass was placed on a free coordinate
C7_Witness ==
    /\ inp.key = "left mouse down" /\ IsBlockHit(inp.hovered)
    /\ current_block # 0
    /\ Last(entities).block_type = block_types[current_block + 1]
    /\ Last(entities).position = VecAdd(entities[inp.hovered].position, inp.normal)
    /\ Len(AtCoord(entities, Last(entities).position)) = 1

(***************************************************************************)
(* C8: a remove with the mouse on the Block at c leaves no Block at c and  *)
(* the Blocks at every other coordinate as they were.  With two Blocks at  *)
(* c (see C1) only the one under the mouse goes.                           *)
(***************************************************************************)
C8_RemoveClearsCoordinate ==
    [][(inp'.key = "right mouse down" /\ IsBlockHit(inp'.hovered))
       => LET c == entities[inp'.hovered].position
          IN  /\ AtCoord(entities', c) = <<>>
              /\ \A p \in Positions(entities) \cup Positions(entities') :
                     p # c => AtCoord(entities', p) = AtCoord(entities, p)]_vars

(***************************************************************************)
(* C9: a place or a remove with nothing under the mouse, or with an entity *)
(* that is no Block, changes nothing and prints nothing.                   *)
(***************************************************************************)
C9_NoHitIsNoOp ==
    [][(/\ inp'.key \in {"left mouse down", "right mouse down"}
        /\ ~IsBlockHit(inp'.hovered))
       => /\ entities' = entities
          /\ current_block' = current_block
          /\ file' = file
          /\ printed' = <<>>]_vars

\* a right click on an entity that is no Block, the platform still there
C9_Witness ==
    /\ inp.key = "right mouse down" /\ inp.hovered = -1
    /\ events = 1
    /\ entities = GeneratedWorld

(***************************************************************************)
(* C10: a save during which open(), a write or the closing flush raised    *)
(* prints the critical message and not the success message.  An error      *)
(* raised by a write is caught as a per-Block failure, and the save prints *)
(* the success message.                                                    *)
(***************************************************************************)
C10_SaveFaultIsCritical ==
    (inp.key = "f5" /\ inp.io[1] # "ok") =>
        /\ \E k \in DOMAIN printed : printed[k] = MsgCritical
        /\ \A k \in DOMAIN printed : printed[k] # MsgSaved

(***************************************************************************)
(* C11: a save, whether it succeeds, skips a line or fails with an I/O     *)
(* error, leaves the Blocks of the world and the selection as they were.   *)
(***************************************************************************)
C11_SaveKeepsMemory ==
    [][inp'.key = "f5"
       => entities' = entities /\ current_block' = current_block]_vars

\* a save failed at close after a selection: platform and selection intact
C11_Witness ==
    /\ inp.key = "f5" /\ inp.io[1] = "close" /\ events = 2
    /\ printed = <<MsgCritical>>
    /\ entities = GeneratedWorld
    /\ current_block = 4

(***************************************************************************)
(* C12: after a save without any failure the file holds one line for each  *)
(* Block of the world, in the world's order, and that line describes the   *)
(* Block; the save of an empty world leaves a file of no lines, and the    *)
(* load of that file gives an empty world.                                 *)
(***************************************************************************)
C12_OneLinePerBlock ==
    (inp.key = "f5" /\ inp.io[1] = "ok") =>
        /\ file.exists
        /\ Len(file.lines) = Len(entities)
        /\ \A i \in DOMAIN entities :
               /\ Describes(file.lines[i])
               /\ LineBlock(file.lines[i]) = entities[i]
        /\ entities = <<>> =>
               /\ file.lines = <<>>
               /\ LoadedWorld(entities, file, "ok") = <<>>

\* an empty world was saved
C12_Witness ==
    /\ inp.key = "f5" /\ inp.io[1] = "ok" /\ events = 2
    /\ entities = <<>>
    /\ file = FilePresent(<<>>)
    /\ printed = <<MsgSaved>>

(***************************************************************************)
(* C13: the selection index is always at least 0 and less than the length  *)
(* of the palette.                                                         *)
(***************************************************************************)
C13_SelectionInRange ==
    0 <= current_block /\ current_block < Len(block_types)

\* a scroll down from index 0 wrapped to the last index
C13_Witness ==
    /\ inp.key = "scroll down" /\ events = 1
    /\ current_block = Len(block_types) - 1

\* the selection after n scrolls by delta
RECURSIVE StepN(_, _, _)
StepN(cur, delta, n) == IF n = 0 THEN cur ELSE StepN(Step(cur, delta), delta, n - 1)

(***************************************************************************)
(* C14: from every selection index, paletteLength scrolls up in a row lead *)
(* back to the index; each scroll up moves to the next index and from the  *)
(* last to 0; a scroll down from 0 leads to paletteLength - 1.             *)
(***************************************************************************)
C14_ScrollWraps ==
    [][/\ StepN(current_block, 1, Len(block_types)) = current_block
       /\ \A n \in 1..(Len(block_types) - 1) :
              StepN(current_block, 1, n) # current_block
       /\ inp'.key = "scroll up" =>
              current_block' = IF current_block = Len(block_types) - 1
                               THEN 0 ELSE current_block + 1
       /\ (inp'.key = "scroll down" /\ current_block = 0) =>
              current_block' = Len(block_types) - 1]_vars

\* a scroll up from the last index wrapped to 0
C14_Witness ==
    /\ inp.key = "scroll up" /\ events = 2
    /\ current_block = 0

(***************************************************************************)
(* C15: selecting index i sets the selection to i when 0 <= i and          *)
(* i < paletteLength and leaves it as it was otherwise; a digit key        *)
(* selects the index of the key.                                           *)
(***************************************************************************)
C15_SelectByIndexGuard ==
    /\ \A i \in (0 - IndexSlack)..(Len(block_types) - 1 + IndexSlack) :
           SelectByIndex(current_block, i) =
               IF i \in 0..(Len(block_types) - 1) THEN i ELSE current_block
    /\ inp.key \in DigitKeys => current_block = KeyIndex(inp.key)

\* key 5 was pressed after another selection: the index is 4
C15_Witness ==
    /\ inp.key = "5" /\ events = 2
    /\ current_block = 4

\* the block types of the Blocks of the world and of the selection
TypesInUse ==
    { entities[i].block_type : i \in DOMAIN entities }
        \cup { block_types[current_block + 1] }

HotkeyOrder == <<"1", "2", "3", "4", "5", "6", "7", "8", "9", "0">>

\* the palette index of a digit key, counted from 0
HotkeyIndex(key) == (CHOOSE i \in DOMAIN HotkeyOrder : HotkeyOrder[i] = key) - 1

(***************************************************************************)
(* C17: a digit key sets the selection to its place in the order 1..9, 0   *)
(* (key k selects k - 1, key 0 selects 9), and a place that follows a      *)
(* digit key adds a Block of the palette entry at that index.              *)
(***************************************************************************)
C17_DigitKeySelects ==
    [][/\ inp'.key \in DigitKeys => current_block' = HotkeyIndex(inp'.key)
       /\ (/\ inp.key \in DigitKeys
           /\ inp'.key = "left mouse down"
           /\ IsBlockHit(inp'.hovered))
          => Last(entities').block_type = block_types[HotkeyIndex(inp.key) + 1]]_vars

\* key 5, then a place: the Block placed is of type tnt
C17_Witness ==
    /\ inp.key = "left mouse down" /\ IsBlockHit(inp.hovered) /\ events = 2
    /\ current_block = 4
    /\ Len(entities) = Len(GeneratedWorld) + 1
    /\ Last(entities).block_type = <<"tnt">>

\* the text of an integer as save writes it: digits with no leading zero,
\* a "-" in front of a negative number only
CanonicalInt(s) ==
    LET u == IF s # <<>> /\ Head(s) = "-" THEN Tail(s) ELSE s
    IN  /\ u # <<>>
        /\ \A i \in DOMAIN u : u[i] \in DigitSet
        /\ Len(u) > 1 => u[1] # "0"
        /\ u = <<"0">> => s = u

\* a line in the form save writes: no white space around it, three
\* canonical integers and a type
CanonicalLine(line) ==
    /\ line = Strip(line)
    /\ Len(Split(line)) = 4
    /\ \A i \in 1..3 : CanonicalInt(Split(line)[i])

\* the last event was a load that read a file all of whose lines are well-formed
LoadedWellFormedFile ==
    /\ LoadedOk
    /\ \A i \in DOMAIN file.lines : Describes(file.lines[i])

\* this step is a save without failure
SavesOk == inp'.key = "f5" /\ inp'.io[1] = "ok"

(***************************************************************************)
(* C18 as stated: a second save right after a save writes the same text,   *)
(* and a save right after the load of a file of well-formed lines writes   *)
(* the lines of that file, in the same order.  A well-formed line with     *)
(* white space, a "+" or leading zeros is written back without them.       *)
(***************************************************************************)
C18_SaveReproducesLines ==
    [][/\ (inp.key = "f5" /\ inp.io[1] = "ok" /\ SavesOk) => file' = file
       /\ (LoadedWellFormedFile /\ SavesOk) => file'.lines = file.lines]_vars

(***************************************************************************)
(* C18 as amended: a second save right after a save writes the same text,  *)
(* and a save right after the load of a file of well-formed lines writes   *)
(* one line for each line of the file, in the same order and describing    *)
(* the same Block; a line in the form save writes is written back as it    *)
(* was.                                                                    *)
(***************************************************************************)
C18_SaveOrderStable ==
    [][/\ (inp.key = "f5" /\ inp.io[1] = "ok" /\ SavesOk) => file' = file
       /\ (LoadedWellFormedFile /\ SavesOk) =>
              /\ Len(file'.lines) = Len(file.lines)
              /\ \A i \in DOMAIN file.lines :
                     /\ Describes(file'.lines[i])
                     /\ LineBlock(file'.lines[i]) = LineBlock(file.lines[i])
                     /\ CanonicalLine(file'.lines[i])
                     /\ CanonicalLine(file.lines[i]) =>
                            file'.lines[i] = file.lines[i]]_vars

\* the file 0,0,0,stone / "+1, 2,03,wood" was loaded and saved: the first
\* line is as it was, the second is 1,2,3,wood
C18_Witness ==
    /\ inp.key = "f5" /\ inp.io[1] = "ok" /\ events = 2
    /\ Len(entities) = 2
    /\ file.lines = << <<"0", ",", "0", ",", "0", ",", "stone">>,
                       <<"1", ",", "2", ",", "3", ",", "wood">> >>

\* the (Coordinate, BlockType) pairs the lines of a file describe
FileBlockSet(f) ==
    { <<LineBlock(f.lines[i]).position, LineBlock(f.lines[i]).block_type>> :
          i \in { j \in DOMAIN f.lines : Describes(f.lines[j]) } }

(***************************************************************************)
(* C19: only a save changes the file: a place, a remove, a load (also one  *)
(* that finds no file or skips lines), a selection and any other key leave *)
(* it as it was.  A save without I/O error leaves a file that describes    *)
(* the Blocks of the world, and a load that reads the file sets the world  *)
(* to the Blocks the file describes; so a load after a save and any edits  *)
(* restores the Blocks that were saved.                                    *)
(***************************************************************************)
C19_OnlySaveWritesFile ==
    [][/\ inp'.key # "f5" => file' = file
       /\ SavesOk =>
              /\ file'.exists
              /\ FileBlockSet(file') = BlockSet(entities)
       /\ (inp'.key = "f6" /\ inp'.io[1] = "ok" /\ file.exists) =>
              BlockSet(entities') = FileBlockSet(file)]_vars

\* the platform was saved and a Block then removed: the file still holds
\* the platform, and a load would bring it back
C19_Witness ==
    /\ inp.key = "right mouse down" /\ IsBlockHit(inp.hovered) /\ events = 2
    /\ file = FilePresent(SaveLines(GeneratedWorld, 0))
    /\ BlockSet(entities) # BlockSet(GeneratedWorld)
    /\ FileBlockSet(file) = BlockSet(GeneratedWorld)
    /\ BlockSet(LoadedWorld(entities, file, "ok")) = BlockSet(GeneratedWorld)

(***************************************************************************)
(* C20: a digit key or a scroll leaves the Blocks of the world as they     *)
(* were, and a place, a remove, a save or a load leaves the selection      *)
(* index as it was.                                                        *)
(***************************************************************************)
C20_SelectionAndWorldApart ==
    [][/\ inp'.key \in DigitKeys \cup {"scroll up", "scroll down"} =>
              entities' = entities
       /\ inp'.key \in {"left mouse down", "right mouse down", "f5", "f6"} =>
              current_block' = current_block]_vars

\* key 5, then a load that replaced the platform: the selection is still 4
C20_Witness ==
    /\ inp.key = "f6" /\ inp.io[1] = "ok" /\ events = 2
    /\ current_block = 4
    /\ entities # <<>>
    /\ entities # GeneratedWorld

====
